---- MODULE Spec2Model ----
(***************************************************************************)
(* A model of crawlservpp::AI::LLM (src/src/AI/LLM.hpp): the facade, the   *)
(* dispatcher (run / loop / assignText / finish), the worker threads       *)
(* (threadFunction) and the rate-limit ledger (checkLimits /               *)
(* limitsReceived), together with the header parsing of apiRequest.        *)
(*                                                                         *)
(* Conventions.                                                            *)
(*  - A text is modelled by its length in characters (the only property of *)
(*    a text the client itself reads); the server's answer to a request is *)
(*    a function of the request, so that a mis-paired result is visible.   *)
(*  - Sequences are 1-based: textIndex and threadIndex of the code are the *)
(*    model's indices minus one.                                           *)
(*  - std::size_t is SizeBits wide and float has FloatBits significant     *)
(*    bits (64 and 24 in the build, scaled down here); a float to size_t   *)
(*    conversion out of range is undefined behaviour and is modelled as a  *)
(*    choice over the results the usual builds produce.                    *)
(*  - Time is relative: a reset deadline is kept as the milliseconds left  *)
(*    until it lies in the past, and Tick lets TickMs milliseconds pass.   *)
(*  - A string the code parses is a tuple of one-character strings.        *)
(***************************************************************************)
EXTENDS Integers, Sequences, FiniteSets, TLC

(* ----------------------------- bounds --------------------------------- *)

\* at most this many texts are added to an instance
MaxTexts == 3

\* at most this many calls of run() on an instance
MaxRuns == 1

\* the same, where the claim is about a second run
MaxReruns == 2

\* at most this many texts where two workers are enough for the claims
MaxTextsSmall == 2

\* setMaxThreads and hardware_concurrency range over 0..MaxThreadsSetting
MaxThreadsSetting == 2

\* the value setMaxTokens is called with during a run
MaxTokensSetting == 16

\* width of std::size_t in the model
SizeBits == 24

\* significant bits of float in the model
FloatBits == 8

\* milliseconds that pass in one Tick
TickMs == 500

(* --------------------------- arithmetic -------------------------------- *)

Pow2(n) == 2 ^ n

\* std::numeric_limits<std::size_t>::max()
SizeMax == Pow2(SizeBits) - 1

Max(a, b) == IF a >= b THEN a ELSE b

\* floor(log2(n)) for n >= 1
Log2Floor(n) == CHOOSE e \in 0..(SizeBits + 4) : Pow2(e) <= n /\ n < Pow2(e + 1)

\* n / d rounded to the nearest integer, ties to the even one (the rounding
\* mode of float arithmetic)
RoundDiv(n, d) ==
    LET q == n \div d
        r == n % d
    IN  IF 2 * r < d THEN q
        ELSE IF 2 * r > d THEN q + 1
        ELSE IF q % 2 = 0 THEN q ELSE q + 1

\* static_cast<float>(n) of a size_t n: n rounded to FloatBits significant bits
FloatOf(n) ==
    IF n < Pow2(FloatBits) THEN n
    ELSE LET ulp == Pow2(Log2Floor(n) - FloatBits + 1)
         IN  RoundDiv(n, ulp) * ulp

\* The float nearest to t/10 (t > 0, in tenths), converted to an integer by
\* truncation: the value of static_cast<std::size_t>(x) for the float x, when
\* it is in range.
FloatTenthsTrunc(t) ==
    IF t < 10 THEN 0
    ELSE LET e == Log2Floor(t \div 10)
         IN  IF e >= FloatBits - 1
             THEN LET ulp == Pow2(e - FloatBits + 1)
                  IN  RoundDiv(t, 10 * ulp) * ulp
             ELSE LET k == Pow2(FloatBits - 1 - e)
                  IN  RoundDiv(t * k, 10) \div k

\* ceil(t / 10) for t in tenths
CeilTenths(t) == (t + 9) \div 10

(* ----------------------------- strings --------------------------------- *)

\* std::string::npos
NPos == 0 - 1

\* what an operator returns when the code throws a std::exception
Throw == 0 - 1

Digits == <<"0", "1", "2", "3", "4", "5", "6", "7", "8", "9">>

IsDigit(c) == \E i \in 1..10 : Digits[i] = c

DigitValue(c) == (CHOOSE i \in 1..10 : Digits[i] = c) - 1

\* src.find(c, from): the 0-based index of the first c at or after from
Find(src, c, from) ==
    IF \E i \in (from + 1)..Len(src) : src[i] = c
    THEN (CHOOSE i \in (from + 1)..Len(src) :
            src[i] = c /\ \A j \in (from + 1)..(i - 1) : src[j] # c) - 1
    ELSE NPos

\* src.find("ms")
FindMs(src) ==
    IF \E i \in 1..(Len(src) - 1) : src[i] = "m" /\ src[i + 1] = "s"
    THEN (CHOOSE i \in 1..(Len(src) - 1) :
            /\ src[i] = "m" /\ src[i + 1] = "s"
            /\ \A j \in 1..(i - 1) : ~(src[j] = "m" /\ src[j + 1] = "s")) - 1
    ELSE NPos

\* src.substr(pos, count): count characters from the 0-based pos, or as many
\* as there are (pos <= src.size() at every call of the code)
Substr(src, pos, count) ==
    LET last == IF pos + count > Len(src) THEN Len(src) ELSE pos + count
    IN  SubSeq(src, pos + 1, last)

\* the number of leading digits of src
RECURSIVE LeadingDigits(_)
LeadingDigits(src) ==
    IF src # <<>> /\ IsDigit(Head(src)) THEN 1 + LeadingDigits(Tail(src)) ELSE 0

\* the value of a string of digits
RECURSIVE DigitsValue(_, _)
DigitsValue(src, acc) ==
    IF src = <<>> THEN acc
    ELSE IF acc > SizeMax THEN acc
    ELSE DigitsValue(Tail(src), 10 * acc + DigitValue(Head(src)))

\* src without its leading blanks
RECURSIVE SkipBlanks(_)
SkipBlanks(src) ==
    IF src # <<>> /\ Head(src) = " " THEN SkipBlanks(Tail(src)) ELSE src

\* std::stoul(src): blanks, an optional sign, then the longest run of digits;
\* std::invalid_argument without a digit, std::out_of_range above the maximum
stoul(src) ==
    LET s1     == SkipBlanks(src)
        signed == s1 # <<>> /\ Head(s1) \in {"+", "-"}
        s2     == IF signed THEN Tail(s1) ELSE s1
        n      == LeadingDigits(s2)
        v      == DigitsValue(SubSeq(s2, 1, n), 0)
    IN  IF n = 0 \/ v > SizeMax THEN Throw
        ELSE IF signed /\ Head(s1) = "-" THEN (Pow2(SizeBits) - v) % Pow2(SizeBits)
        ELSE v

\* LLM::toUL: std::stoul, and in a build with NDEBUG zero instead of an exception
toUL(src, isNDebug) ==
    IF stoul(src) = Throw /\ isNDebug THEN 0 ELSE stoul(src)

msPerDay == 86400000
msPerHour == 3600000
msPerMinute == 60000
msPerSecond == 1000

\* the fraction of a second as parseTimeMs scales it
ScaleFraction(milliseconds) ==
    IF milliseconds < 100 THEN milliseconds * 10 ELSE milliseconds

\* LLM::parseTimeMs: a duration of a rate-limit header in milliseconds (Throw
\* when one of its conversions throws)
parseTimeMs(src, isNDebug) ==
    LET msPos == FindMs(src)
        dPos  == Find(src, "d", 0)
        hPos  == Find(src, "h", 0)
        mPos  == Find(src, "m", 0)
        sPos  == Find(src, "s", 0)
        days  == IF dPos # NPos THEN toUL(Substr(src, 0, dPos), isNDebug) ELSE 0
        pos1  == IF dPos # NPos THEN dPos + 1 ELSE 0
        hours == IF hPos # NPos THEN toUL(Substr(src, pos1, hPos), isNDebug) ELSE 0
        pos2  == IF hPos # NPos THEN hPos + 1 ELSE pos1
        minutes == IF mPos # NPos THEN toUL(Substr(src, pos2, mPos), isNDebug) ELSE 0
        pos3  == IF mPos # NPos THEN mPos + 1 ELSE pos2
        dotPos == Find(src, ".", pos3)
        seconds ==
            IF sPos = NPos THEN 0
            ELSE IF dotPos = NPos THEN toUL(Substr(src, pos3, sPos), isNDebug)
            ELSE toUL(Substr(src, pos3, dotPos - pos3), isNDebug)
        fraction ==
            IF sPos = NPos \/ dotPos = NPos THEN 0
            ELSE toUL(Substr(src, dotPos + 1, sPos - dotPos - 1), isNDebug)
        milliseconds == IF fraction = Throw THEN Throw ELSE ScaleFraction(fraction)
    IN  IF msPos # NPos THEN toUL(Substr(src, 0, msPos), isNDebug)
        ELSE IF Throw \in {days, hours, minutes, seconds, milliseconds} THEN Throw
        ELSE (days * msPerDay + hours * msPerHour + minutes * msPerMinute
              + seconds * msPerSecond + milliseconds) % Pow2(SizeBits)

(* ------------------------------ state ---------------------------------- *)

VARIABLES
    ndebug,              \* whether the build defines NDEBUG (fixed per behaviour)
    models,              \* LLM::models, the catalog fetched by the constructor
    currentModel,        \* LLM::currentModel ("" = none selected)
    currentPrompt,       \* LLM::currentPrompt
    maxTokens,           \* LLM::maxTokens
    maxThreads,          \* LLM::maxThreads
    tokensPerCharacter,  \* LLM::tokensPerCharacter, in tenths
    progressCallback,    \* whether LLM::progressCallback holds a function
    inputs,              \* LLM::inputs
    results,             \* LLM::results
    threads,             \* LLM::threads: per slot the worker its std::thread runs, 0 if none
    isThreadsUsed,       \* LLM::isThreadsUsed
    isThreadsFinished,   \* LLM::isThreadsFinished
    textsDone,           \* LLM::textsDone
    requestLimit, tokenLimit, requestsRemaining, tokensRemaining,
    requestsMade, tokensSent,
    requestLimitTimeout, \* ms until LLM::requestLimitTimeout is in the past, or Unset
    tokenLimitTimeout,   \* ms until LLM::tokenLimitTimeout is in the past, or Unset
    isRequestLimitReset, isTokenLimitReset,
    pc,                  \* where the caller's thread is: idle, loop, scan, join, finish, terminated
    textIndex,           \* loop's textIndex (1-based)
    threadIndex,         \* assignText's / finish's threadIndex (1-based)
    isNotAssigned,       \* assignText's isNotAssigned
    wpc,                 \* per worker (one per text index) its position in threadFunction
    wslot,               \* per worker the threadIndex it was started with
    data,                \* per worker its Struct::LLMData
    reply,               \* per worker the response its apiRequest received
    outcome,             \* how the last call of a facade operation ended
    runs,                \* number of calls of run()
    failure,             \* the text of the first exception thrown in a worker
    progressLog,         \* what the callback received in this run, as <<textsDone, size>>
    textDoneCalls,       \* per worker how often it called textDone in this run
    advertised,          \* the remaining budgets of the last ingested header set
    waited,              \* per worker what happened since checkLimits last refused it
    lastIngest,          \* the header set limitsReceived last took, and the ms since then
    epoch,               \* per budget the value its last reset set, and the admissions since
    freed,               \* whether free() has been called
    request,             \* per worker the HTTP request its apiRequest has sent
    holder,              \* per mutex the thread that holds it
    lockpc               \* per thread its place among the lock scopes of the code

settingsVars == <<ndebug, models, currentModel, currentPrompt, maxTokens, maxThreads,
                  tokensPerCharacter, progressCallback>>
ledgerVars == <<requestLimit, tokenLimit, requestsRemaining, tokensRemaining,
                requestsMade, tokensSent, requestLimitTimeout, tokenLimitTimeout,
                isRequestLimitReset, isTokenLimitReset>>
tableVars == <<threads, isThreadsUsed, isThreadsFinished>>
dispatchVars == <<pc, textIndex, threadIndex, isNotAssigned>>
workerVars == <<wpc, wslot, data, reply>>
historyVars == <<outcome, runs, failure, progressLog, textDoneCalls, advertised, waited,
                 lastIngest, epoch, freed, request, holder, lockpc>>

vars == <<settingsVars, inputs, results, tableVars, textsDone, ledgerVars,
          dispatchVars, workerVars, historyVars>>

\* the ledger as one record (for statements about all of its fields)
Ledger ==
    [requestLimit |-> requestLimit, tokenLimit |-> tokenLimit,
     requestsRemaining |-> requestsRemaining, tokensRemaining |-> tokensRemaining,
     requestLimitTimeout |-> requestLimitTimeout, tokenLimitTimeout |-> tokenLimitTimeout,
     isRequestLimitReset |-> isRequestLimitReset, isTokenLimitReset |-> isTokenLimitReset]

(* ----------------------------- domains --------------------------------- *)

\* the catalog the server returns to GET {endpoint}models
Catalog == <<"gpt-x", "gpt-y">>

\* the lengths of the texts that are added
TextLengths == {0, 4, 10}

\* the worker of text index i is worker i
Workers == 1..MaxTexts

\* a time point that was never set (std::chrono::time_point{})
Unset == 0 - 2

\* an empty std::string result, and a std::thread that runs nothing
NoResult == <<>>
NoWorker == 0
NoData == [model |-> "", prompt |-> "", maxTokens |-> 0, text |-> 0, tokens |-> 0]
NoReply == [kind |-> "none", found |-> 0]
NoAdvert == <<>>
NoIngest == <<>>
NoFailure == <<>>

\* the budgets before any reset: the initial values, and nobody admitted
FirstEpoch ==
    [requestsSet |-> SizeMax, admittedRequests |-> 0,
     tokensSet |-> SizeMax, admittedTokens |-> 0, estimates |-> 0]

\* the six rate-limit headers of a response; <<>> is a header that is absent
\* (or present with an empty value, which parseHeader skips alike)
NoHeaders ==
    [limitRequests |-> <<>>, limitTokens |-> <<>>, remainingRequests |-> <<>>,
     remainingTokens |-> <<>>, resetRequests |-> <<>>, resetTokens |-> <<>>]

\* no request left until the reset in one second
StallHeaders ==
    [limitRequests |-> <<"2">>, limitTokens |-> <<"4">>, remainingRequests |-> <<"0">>,
     remainingTokens |-> <<"4">>, resetRequests |-> <<"1", "s">>,
     resetTokens |-> <<"5", "0", "0", "m", "s">>]

\* a token budget above the integers a float holds exactly
LargeHeaders ==
    [limitRequests |-> <<"3">>, limitTokens |-> <<"3", "0", "0">>,
     remainingRequests |-> <<"2">>, remainingTokens |-> <<"2", "5", "9">>,
     resetRequests |-> <<"1", "s">>, resetTokens |-> <<"1", "s">>]

\* the whole budget left, of a size a float does not hold exactly
FullHeaders ==
    [limitRequests |-> <<"3">>, limitTokens |-> <<"2", "5", "9">>,
     remainingRequests |-> <<"3">>, remainingTokens |-> <<"2", "5", "9">>,
     resetRequests |-> <<"1", "s">>, resetTokens |-> <<"1", "s">>]

\* five of the six headers
PartialHeaders == [StallHeaders EXCEPT !.resetTokens = <<>>]

HeaderSets == {NoHeaders, StallHeaders, LargeHeaders, PartialHeaders}

\* six headers, one of them with a value that is no number
MalformedHeaders == [StallHeaders EXCEPT !.limitTokens = <<"x">>]

\* durations with a fraction of a second: 0.9s, 1.2s, 2.5s, 0.25s and 0.125s
Durations ==
    {<<"0", ".", "9", "s">>, <<"1", ".", "2", "s">>, <<"2", ".", "5", "s">>,
     <<"0", ".", "2", "5", "s">>, <<"0", ".", "1", "2", "5", "s">>}

\* no request left until the reset after the duration d
DurationHeaders(d) == [StallHeaders EXCEPT !.resetRequests = d]

\* every header set a server of the model sends
AllHeaderSets ==
    HeaderSets \cup {MalformedHeaders, FullHeaders}
    \cup {DurationHeaders(d) : d \in Durations}

\* what the server can answer: a success body, an error object, a success
\* body without "choices", or no answer at all (curl fails)
ReplyKinds == {"ok", "error", "malformed", "transport"}

Replies == [kind : ReplyKinds, headers : HeaderSets]

\* the member "type" of an error object when it is a string
StringType == [json |-> "string", value |-> "invalid_request_error"]

\* the error objects of the model, each with the string message "bad": the
\* member "type" is a string, a value that is no string, or absent
Errors ==
    {[type |-> t, message |-> "bad"] :
        t \in {StringType, [json |-> "number", value |-> ""],
               [json |-> "absent", value |-> ""]}}

\* no request sent yet
NoRequest == [method |-> "none", command |-> "", body |-> <<>>, headers |-> <<>>]

\* LLM::headers, the extra HTTP headers the constructor was given
ExtraHeaders == <<"OpenAI-Organization: org">>

\* the four mutexes of the class
Mutexes == {"settings", "limits", "results", "finished"}

\* the threads: the caller's thread, which runs the dispatcher, and one worker
\* per text
Dispatcher == 0
Threads == {Dispatcher} \cup (1..MaxTextsSmall)

\* the holder of a mutex that nobody holds
NoThread == 0 - 1

\* choices[0].message.content of the server's answer to the request built from d
Content(d) == <<"reply to", d.text, d.model, d.prompt>>

(* ------------------------------- Init ---------------------------------- *)

\* The state after the constructor has fetched the catalog, in a build of
\* one of the given kinds.
InitWith(builds) ==
    /\ ndebug \in builds
    /\ models = Catalog
    /\ currentModel = ""
    /\ currentPrompt = ""
    /\ maxTokens = 0
    /\ maxThreads = 0
    /\ tokensPerCharacter = 3
    /\ progressCallback = FALSE
    /\ inputs = <<>>
    /\ results = <<>>
    /\ threads = <<>>
    /\ isThreadsUsed = <<>>
    /\ isThreadsFinished = <<>>
    /\ textsDone = 0
    /\ requestLimit = SizeMax
    /\ tokenLimit = SizeMax
    /\ requestsRemaining = SizeMax
    /\ tokensRemaining = SizeMax
    /\ requestsMade = 0
    /\ tokensSent = 0
    /\ requestLimitTimeout = Unset
    /\ tokenLimitTimeout = Unset
    /\ isRequestLimitReset = FALSE
    /\ isTokenLimitReset = FALSE
    /\ pc = "idle"
    /\ textIndex = 1
    /\ threadIndex = 1
    /\ isNotAssigned = TRUE
    /\ wpc = [w \in Workers |-> "none"]
    /\ wslot = [w \in Workers |-> 1]
    /\ data = [w \in Workers |-> NoData]
    /\ reply = [w \in Workers |-> NoReply]
    /\ outcome = "none"
    /\ runs = 0
    /\ failure = NoFailure
    /\ progressLog = <<>>
    /\ textDoneCalls = [w \in Workers |-> 0]
    /\ advertised = NoAdvert
    /\ waited = [w \in Workers |-> "no"]
    /\ lastIngest = NoIngest
    /\ epoch = FirstEpoch
    /\ freed = FALSE
    /\ request = [w \in Workers |-> NoRequest]
    /\ holder = [m \in Mutexes |-> NoThread]
    /\ lockpc = [t \in Threads |-> IF t = Dispatcher THEN "idle" ELSE "none"]

Init == InitWith({TRUE})

(* ------------------------------ facade --------------------------------- *)

\* (mutant) setModel without its search of the catalog
ModelAvailableUnchecked(m) == m # ""

\* whether setModel accepts m
ModelAvailable(m) == m # "" /\ \E i \in 1..Len(models) : models[i] = m

\* LLM::setModel
SetModel(m) ==
    /\ pc = "idle"
    /\ currentModel' = IF ModelAvailable(m) THEN m ELSE currentModel
    /\ outcome' = IF ModelAvailable(m) THEN "none" ELSE "raised"
    /\ UNCHANGED <<ndebug, models, currentPrompt, maxTokens, maxThreads,
                   tokensPerCharacter, progressCallback>>
    /\ UNCHANGED <<inputs, results, tableVars, textsDone, ledgerVars, dispatchVars,
                   workerVars>>
    /\ UNCHANGED <<runs, failure, progressLog, textDoneCalls, advertised, waited,
                   lastIngest, epoch, freed, request, holder, lockpc>>

\* LLM::setMaxThreads
SetMaxThreads(n) ==
    /\ pc = "idle"
    /\ maxThreads' = n
    /\ outcome' = "none"
    /\ UNCHANGED <<ndebug, models, currentModel, currentPrompt, maxTokens,
                   tokensPerCharacter, progressCallback>>
    /\ UNCHANGED <<inputs, results, tableVars, textsDone, ledgerVars, dispatchVars,
                   workerVars>>
    /\ UNCHANGED <<runs, failure, progressLog, textDoneCalls, advertised, waited,
                   lastIngest, epoch, freed, request, holder, lockpc>>

\* LLM::setProgressCallback, with a function
SetProgressCallback ==
    /\ pc = "idle"
    /\ progressCallback' = TRUE
    /\ outcome' = "none"
    /\ UNCHANGED <<ndebug, models, currentModel, currentPrompt, maxTokens, maxThreads,
                   tokensPerCharacter>>
    /\ UNCHANGED <<inputs, results, tableVars, textsDone, ledgerVars, dispatchVars,
                   workerVars>>
    /\ UNCHANGED <<runs, failure, progressLog, textDoneCalls, advertised, waited,
                   lastIngest, epoch, freed, request, holder, lockpc>>

\* LLM::addText
AddText(t) ==
    /\ pc = "idle"
    /\ inputs' = Append(inputs, t)
    /\ outcome' = "none"
    /\ UNCHANGED <<settingsVars, results, tableVars, textsDone, ledgerVars,
                   dispatchVars, workerVars>>
    /\ UNCHANGED <<runs, failure, progressLog, textDoneCalls, advertised, waited,
                   lastIngest, epoch, freed, request, holder, lockpc>>

\* LLM::addTexts
AddTexts(ts) ==
    /\ pc = "idle"
    /\ inputs' = inputs \o ts
    /\ outcome' = "none"
    /\ UNCHANGED <<settingsVars, results, tableVars, textsDone, ledgerVars,
                   dispatchVars, workerVars>>
    /\ UNCHANGED <<runs, failure, progressLog, textDoneCalls, advertised, waited,
                   lastIngest, epoch, freed, request, holder, lockpc>>

\* (mutant) free() releasing the inputs as well
FreeInputsToo ==
    /\ pc = "idle"
    /\ inputs' = <<>>
    /\ results' = <<>>
    /\ threads' = <<>>
    /\ isThreadsFinished' = <<>>
    /\ isThreadsUsed' = <<>>
    /\ outcome' = "none"
    /\ freed' = TRUE
    /\ UNCHANGED <<settingsVars, textsDone, ledgerVars, dispatchVars, workerVars>>
    /\ UNCHANGED <<runs, failure, progressLog, textDoneCalls, advertised, waited,
                   lastIngest, epoch, request, holder, lockpc>>

\* LLM::free
Free ==
    /\ pc = "idle"
    /\ results' = <<>>
    /\ threads' = <<>>
    /\ isThreadsFinished' = <<>>
    /\ isThreadsUsed' = <<>>
    /\ outcome' = "none"
    /\ freed' = TRUE
    /\ UNCHANGED <<settingsVars, inputs, textsDone, ledgerVars, dispatchVars, workerVars>>
    /\ UNCHANGED <<runs, failure, progressLog, textDoneCalls, advertised, waited,
                   lastIngest, epoch, request, holder, lockpc>>

\* LLM::calculateMaxThreads, hw being std::thread::hardware_concurrency()
calculateMaxThreads(hw) ==
    LET first == IF maxThreads = 0 THEN hw ELSE maxThreads
    IN  IF first = 0 THEN 1 ELSE first

\* (mutant) run() allocating the results and the tables before its check of
\* the model
RunAllocatesFirst ==
    /\ pc = "idle"
    /\ currentModel = ""
    /\ results' = [i \in 1..Len(inputs) |-> NoResult]
    /\ threads' = [t \in 1..maxThreads |-> NoWorker]
    /\ isThreadsFinished' = [t \in 1..maxThreads |-> FALSE]
    /\ isThreadsUsed' = [t \in 1..maxThreads |-> FALSE]
    /\ outcome' = "raised"
    /\ runs' = runs + 1
    /\ UNCHANGED <<settingsVars, inputs, textsDone, ledgerVars, dispatchVars, workerVars>>
    /\ UNCHANGED <<failure, progressLog, textDoneCalls, advertised, waited, lastIngest, epoch, freed, request, holder, lockpc>>

\* LLM::run without a selected model: the exception, before anything else
RunWithoutModel ==
    /\ pc = "idle"
    /\ currentModel = ""
    /\ outcome' = "raised"
    /\ runs' = runs + 1
    /\ UNCHANGED <<settingsVars, inputs, results, tableVars, textsDone, ledgerVars,
                   dispatchVars, workerVars>>
    /\ UNCHANGED <<failure, progressLog, textDoneCalls, advertised, waited, lastIngest, epoch, freed, request, holder, lockpc>>

\* LLM::run up to its call of loop(): the tables are allocated anew
RunStart(hw) ==
    /\ pc = "idle"
    /\ currentModel # ""
    /\ maxThreads' = calculateMaxThreads(hw)
    /\ results' = [i \in 1..Len(inputs) |-> NoResult]
    /\ threads' = [t \in 1..maxThreads' |-> NoWorker]
    /\ isThreadsFinished' = [t \in 1..maxThreads' |-> FALSE]
    /\ isThreadsUsed' = [t \in 1..maxThreads' |-> FALSE]
    /\ pc' = "loop"
    /\ textIndex' = 1
    /\ wpc' = [w \in Workers |-> "none"]
    /\ wslot' = [w \in Workers |-> 1]
    /\ data' = [w \in Workers |-> NoData]
    /\ reply' = [w \in Workers |-> NoReply]
    /\ outcome' = "none"
    /\ runs' = runs + 1
    /\ textDoneCalls' = [w \in Workers |-> 0]
    /\ waited' = [w \in Workers |-> "no"]
    /\ progressLog' = <<>>
    /\ UNCHANGED <<ndebug, models, currentModel, currentPrompt, maxTokens,
                   tokensPerCharacter, progressCallback>>
    /\ UNCHANGED <<inputs, textsDone, ledgerVars, threadIndex, isNotAssigned>>
    /\ request' = [w \in Workers |-> NoRequest]
    /\ UNCHANGED <<failure, advertised, lastIngest, epoch, freed, holder, lockpc>>

(* ---------------------------- dispatcher ------------------------------- *)

\* LLM::loop: the next text, or the end of the loop (run() goes on to finish())
Loop ==
    /\ pc = "loop"
    /\ IF textIndex <= Len(inputs)
       THEN /\ pc' = "scan"
            /\ threadIndex' = 1
            /\ isNotAssigned' = TRUE
       ELSE /\ pc' = "finish"
            /\ threadIndex' = 1
            /\ UNCHANGED isNotAssigned
    /\ UNCHANGED <<settingsVars, inputs, results, tableVars, textsDone, ledgerVars,
                   textIndex, workerVars, historyVars>>

\* (mutant) every thread is given the first text
assignThreadFirst(text, slot) ==
    /\ threads' = [threads EXCEPT ![slot] = 1]
    /\ wpc' = [wpc EXCEPT ![1] = "start"]
    /\ wslot' = [wslot EXCEPT ![1] = slot]

\* LLM::assignThread: a new std::thread running threadFunction(textIndex,
\* threadIndex) is moved into the slot
assignThread(text, slot) ==
    /\ threads' = [threads EXCEPT ![slot] = text]
    /\ wpc' = [wpc EXCEPT ![text] = "start"]
    /\ wslot' = [wslot EXCEPT ![text] = slot]

\* (mutant) join() does not wait for the thread
JoinableAlways(slot) == TRUE

\* (mutant) the finished flag is taken for the end of the thread
JoinableByFlag(slot) == isThreadsFinished[slot]

\* whether std::thread::join() on the slot's thread returns: its thread
\* function has returned
Joinable(slot) == threads[slot] # NoWorker /\ wpc[threads[slot]] = "done"

\* LLM::assignText: one turn of its for loop, at threadIndex
Scan ==
    /\ pc = "scan"
    /\ IF threadIndex > Len(threads)
       THEN \* no slot was free: the do-while starts the for loop again
            /\ threadIndex' = 1
            /\ UNCHANGED <<pc, textIndex, isNotAssigned, tableVars, wpc, wslot>>
       ELSE IF ~isThreadsUsed[threadIndex]
       THEN /\ isThreadsUsed' = [isThreadsUsed EXCEPT ![threadIndex] = TRUE]
            /\ assignThread(textIndex, threadIndex)
            /\ isNotAssigned' = FALSE
            /\ pc' = "loop"
            /\ textIndex' = textIndex + 1
            /\ UNCHANGED <<threadIndex, isThreadsFinished>>
       ELSE /\ isNotAssigned' = ~isThreadsFinished[threadIndex]
            /\ IF isNotAssigned'
               THEN /\ threadIndex' = threadIndex + 1
                    /\ UNCHANGED pc
               ELSE /\ pc' = "join"
                    /\ UNCHANGED threadIndex
            /\ UNCHANGED <<textIndex, tableVars, wpc, wslot>>
    /\ UNCHANGED <<settingsVars, inputs, results, textsDone, ledgerVars, data, reply,
                   historyVars>>

\* LLM::assignText: the join of a slot found finished, and the new thread
Join ==
    /\ pc = "join"
    /\ Joinable(threadIndex)
    /\ assignThread(textIndex, threadIndex)
    /\ pc' = "loop"
    /\ textIndex' = textIndex + 1
    /\ UNCHANGED <<settingsVars, inputs, results, isThreadsUsed, isThreadsFinished,
                   textsDone, ledgerVars, threadIndex, isNotAssigned, data, reply,
                   historyVars>>

\* LLM::finish: one turn of its loop, and the return of run() after the last
Finish ==
    /\ pc = "finish"
    /\ IF threadIndex > Len(threads)
       THEN /\ pc' = "idle"
            /\ outcome' = "returned"
            /\ UNCHANGED <<threadIndex, threads, isThreadsUsed>>
       ELSE IF ~isThreadsUsed[threadIndex]
       THEN /\ threadIndex' = threadIndex + 1
            /\ UNCHANGED <<pc, outcome, threads, isThreadsUsed>>
       ELSE /\ Joinable(threadIndex)
            /\ threads' = [threads EXCEPT ![threadIndex] = NoWorker]
            /\ isThreadsUsed' = [isThreadsUsed EXCEPT ![threadIndex] = FALSE]
            /\ threadIndex' = threadIndex + 1
            /\ UNCHANGED <<pc, outcome>>
    /\ UNCHANGED <<settingsVars, inputs, results, isThreadsFinished, textsDone,
                   ledgerVars, textIndex, isNotAssigned, workerVars>>
    /\ UNCHANGED <<runs, failure, progressLog, textDoneCalls, advertised, waited,
                   lastIngest, epoch, freed, request, holder, lockpc>>

(* ------------------------------ ledger --------------------------------- *)

\* whether a deadline is set and lies in the past
Passed(timeout) == timeout # Unset /\ timeout < 0

\* the conditions of checkLimits for restoring a budget to its limit
RequestRefillDue == ~isRequestLimitReset /\ Passed(requestLimitTimeout)
TokenRefillDue == ~isTokenLimitReset /\ Passed(tokenLimitTimeout)

\* the budgets as checkLimits tests them, after its refills
RefilledRequests == IF RequestRefillDue THEN requestLimit ELSE requestsRemaining
RefilledTokens == IF TokenRefillDue THEN tokenLimit ELSE tokensRemaining

\* checkLimits' tokens: textLength * tokensPerCharacter, a float, in tenths
\* (with the short texts of the model the product is taken as exact)
EstimateTokens(textLength) == textLength * tokensPerCharacter

\* (mutant) the test with >= for >
LimitsOkNotStrict(tokens) ==
    /\ RefilledRequests >= requestsMade
    /\ 10 * FloatOf(RefilledTokens) >= tokens + 10 * FloatOf(tokensSent)

\* the test of checkLimits; the operands of the second comparison are floats
LimitsOk(tokens) ==
    /\ RefilledRequests > requestsMade
    /\ 10 * FloatOf(RefilledTokens) > tokens + 10 * FloatOf(tokensSent)

\* the values tokensRemaining -= tokens can leave: the float difference
\* converted to std::size_t, which is undefined when the float is out of range
\* (the usual builds give 0 or the maximum)
DebitOutcomes(v) == IF v > SizeMax THEN {0, SizeMax} ELSE {v}

\* (each intermediate value is bound once: r the budget, f its float, t the
\* difference in tenths, v the difference as an integer)
TokensAfterDebit(tokens) ==
    UNION {DebitOutcomes(v) :
              v \in {FloatTenthsTrunc(t) :
                        t \in {10 * f - tokens :
                                  f \in {FloatOf(r) : r \in {RefilledTokens}}}}}

\* the advertised budgets, marked once a deadline has restored a budget
AfterRefill(adv) == IF adv = NoAdvert THEN adv ELSE [adv EXCEPT !.refilled = TRUE]

\* the epochs after the refills that are due
EpochAfterRefill ==
    [requestsSet |-> IF RequestRefillDue THEN requestLimit ELSE epoch.requestsSet,
     admittedRequests |-> IF RequestRefillDue THEN 0 ELSE epoch.admittedRequests,
     tokensSet |-> IF TokenRefillDue THEN tokenLimit ELSE epoch.tokensSet,
     admittedTokens |-> IF TokenRefillDue THEN 0 ELSE epoch.admittedTokens,
     estimates |-> IF TokenRefillDue THEN 0 ELSE epoch.estimates]

\* the epochs after the admission of a worker with the estimate tokens
EpochAfterAdmit(tokens) ==
    [EpochAfterRefill EXCEPT !.admittedRequests = @ + 1, !.admittedTokens = @ + 1,
                             !.estimates = @ + tokens]

\* every worker that was refused and is still waiting notes the event
Noted(w, event) == IF waited[w] \in {"refused", "ingested"} THEN event ELSE waited[w]

\* LLM::checkLimits: one turn of its loop that ends it (the worker is admitted)
CheckLimitsAdmit(w) ==
    /\ pc # "terminated"
    /\ wpc[w] = "limits"
    /\ LimitsOk(data[w].tokens)
    /\ isRequestLimitReset' = (isRequestLimitReset \/ RequestRefillDue)
    /\ isTokenLimitReset' = (isTokenLimitReset \/ TokenRefillDue)
    /\ requestsRemaining' = (RefilledRequests - 1) % Pow2(SizeBits)
    /\ tokensRemaining' \in TokensAfterDebit(data[w].tokens)
    /\ wpc' = [wpc EXCEPT ![w] = "http"]
    /\ epoch' = EpochAfterAdmit(data[w].tokens)
    /\ waited' = [x \in Workers |->
                    IF RequestRefillDue \/ TokenRefillDue THEN Noted(x, "refilled")
                    ELSE waited[x]]
    /\ advertised' = IF RequestRefillDue \/ TokenRefillDue THEN AfterRefill(advertised)
                     ELSE advertised
    /\ UNCHANGED <<settingsVars, inputs, results, tableVars, textsDone, dispatchVars,
                   wslot, data, reply>>
    /\ UNCHANGED <<requestLimit, tokenLimit, requestsMade, tokensSent,
                   requestLimitTimeout, tokenLimitTimeout>>
    /\ UNCHANGED <<outcome, runs, failure, progressLog, textDoneCalls, lastIngest, freed, request, holder, lockpc>>

\* LLM::checkLimits: one turn of its loop that ends in the sleep
CheckLimitsRefuse(w) ==
    /\ pc # "terminated"
    /\ wpc[w] = "limits"
    /\ ~LimitsOk(data[w].tokens)
    /\ isRequestLimitReset' = (isRequestLimitReset \/ RequestRefillDue)
    /\ isTokenLimitReset' = (isTokenLimitReset \/ TokenRefillDue)
    /\ requestsRemaining' = RefilledRequests
    /\ tokensRemaining' = RefilledTokens
    /\ epoch' = EpochAfterRefill
    /\ waited' = [x \in Workers |->
                    IF x = w THEN "refused"
                    ELSE IF RequestRefillDue \/ TokenRefillDue THEN Noted(x, "refilled")
                    ELSE waited[x]]
    /\ advertised' = IF RequestRefillDue \/ TokenRefillDue THEN AfterRefill(advertised)
                     ELSE advertised
    /\ UNCHANGED <<settingsVars, inputs, results, tableVars, textsDone, dispatchVars,
                   workerVars>>
    /\ UNCHANGED <<requestLimit, tokenLimit, requestsMade, tokensSent,
                   requestLimitTimeout, tokenLimitTimeout>>
    /\ UNCHANGED <<outcome, runs, failure, progressLog, textDoneCalls, lastIngest, freed, request, holder, lockpc>>

\* LLM::limitsReceived
limitsReceived(limitRequests, limitTokens, remainingRequests, remainingTokens, resetRequests, resetTokens) ==
    /\ requestLimit' = limitRequests
    /\ tokenLimit' = limitTokens
    /\ requestsRemaining' = remainingRequests
    /\ tokensRemaining' = remainingTokens
    /\ requestsMade' = 0
    /\ tokensSent' = 0
    /\ requestLimitTimeout' = resetRequests
    /\ tokenLimitTimeout' = resetTokens
    /\ isRequestLimitReset' = FALSE
    /\ isTokenLimitReset' = FALSE

\* whether a deadline is set and not yet in the past
Pending(timeout) == timeout # Unset /\ timeout >= 0

\* a deadline after TickMs more milliseconds
Later(timeout) ==
    IF timeout = Unset \/ timeout < 0 THEN timeout
    ELSE IF timeout - TickMs < 0 THEN 0 - 1 ELSE timeout - TickMs

\* std::chrono::steady_clock advances by TickMs
Tick ==
    /\ pc # "terminated"
    /\ ~(~Pending(requestLimitTimeout) /\ ~Pending(tokenLimitTimeout))
    /\ requestLimitTimeout' = Later(requestLimitTimeout)
    /\ tokenLimitTimeout' = Later(tokenLimitTimeout)
    /\ lastIngest' = IF lastIngest = NoIngest THEN lastIngest
                     ELSE [lastIngest EXCEPT !.elapsed = @ + TickMs]
    /\ UNCHANGED <<settingsVars, inputs, results, tableVars, textsDone, dispatchVars,
                   workerVars>>
    /\ UNCHANGED <<outcome, runs, failure, progressLog, textDoneCalls, advertised, waited,
                   epoch, freed, request, holder, lockpc>>
    /\ UNCHANGED <<requestLimit, tokenLimit, requestsRemaining, tokensRemaining,
                   requestsMade, tokensSent, isRequestLimitReset, isTokenLimitReset>>

(* ------------------------------ workers -------------------------------- *)

\* an exception leaves threadFunction: std::terminate ends the process
WorkerThrows(what) ==
    /\ pc' = "terminated"
    /\ outcome' = "terminated"
    /\ failure' = IF failure = NoFailure THEN what ELSE failure

\* LLM::copySettingsToThread, the copy of the text, and the token estimate
\* checkLimits starts with
CopySettings(w) ==
    /\ pc # "terminated"
    /\ wpc[w] = "start"
    /\ data' = [data EXCEPT ![w] =
                    [model |-> currentModel, prompt |-> currentPrompt,
                     maxTokens |-> maxTokens, text |-> inputs[w],
                     tokens |-> EstimateTokens(inputs[w])]]
    /\ wpc' = [wpc EXCEPT ![w] = "limits"]
    /\ UNCHANGED <<settingsVars, inputs, results, tableVars, textsDone, ledgerVars,
                   dispatchVars, wslot, reply, historyVars>>

\* LLM::parseHeader on each of the six headers: the value of `to`, and
\* whether it was found
Found(value) == value # <<>>
HeaderNumber(value, isNDebug) == IF Found(value) THEN toUL(value, isNDebug) ELSE 0
HeaderTime(value, isNDebug) == IF Found(value) THEN parseTimeMs(value, isNDebug) ELSE 0

\* the six numbers parseHeader extracts from the headers h
ParsedWith(h, isNDebug) ==
    [limitRequests |-> HeaderNumber(h.limitRequests, isNDebug),
     limitTokens |-> HeaderNumber(h.limitTokens, isNDebug),
     remainingRequests |-> HeaderNumber(h.remainingRequests, isNDebug),
     remainingTokens |-> HeaderNumber(h.remainingTokens, isNDebug),
     resetRequests |-> HeaderTime(h.resetRequests, isNDebug),
     resetTokens |-> HeaderTime(h.resetTokens, isNDebug)]

\* the same, tabulated for the header sets of the model
ParsedTable == [b \in BOOLEAN |-> [h \in AllHeaderSets |-> ParsedWith(h, b)]]
Parsed(h) == ParsedTable[ndebug][h]

\* whether a conversion of parseHeader throws
HeaderThrows(h) ==
    LET p == Parsed(h) IN \E f \in DOMAIN p : p[f] = Throw

\* (mutant) the condition without its last flag
AllLimitsFoundButOne(h) ==
    /\ Found(h.limitRequests)
    /\ Found(h.limitTokens)
    /\ Found(h.remainingRequests)
    /\ Found(h.remainingTokens)
    /\ Found(h.resetRequests)

\* the condition of apiRequest for updating the limits
AllLimitsFound(h) ==
    /\ Found(h.limitRequests)
    /\ Found(h.limitTokens)
    /\ Found(h.remainingRequests)
    /\ Found(h.remainingTokens)
    /\ Found(h.resetRequests)
    /\ Found(h.resetTokens)

\* how many of the six headers a reply carries (with a value)
HeadersPresent(h) == Cardinality({f \in DOMAIN h : h[f] # <<>>})

\* LLM::jsonRequest: the JSON body for the data d as a sequence holding the
\* object, or the empty string as the empty sequence (a text is represented
\* by its length, and max_completion_tokens = 0 stands for its absence)
jsonRequest(d) ==
    IF d.model = "" \/ d.text = 0 THEN <<>>
    ELSE <<[model |-> d.model,
            messages |-> (IF d.prompt # ""
                          THEN <<[role |-> "system", content |-> <<d.prompt>>]>>
                          ELSE <<>>)
                         \o <<[role |-> "user", content |-> <<d.text>>]>>,
            max_completion_tokens |-> d.maxTokens]>>

\* (mutant) the request built from the settings of the object
RequestFromSettings(d) ==
    LET now == [d EXCEPT !.model = currentModel, !.prompt = currentPrompt,
                         !.maxTokens = maxTokens]
    IN  [method |-> IF jsonRequest(now) # <<>> THEN "POST" ELSE "GET",
         command |-> "chat/completions",
         body |-> jsonRequest(now),
         headers |-> <<"Authorization: Bearer">>
                     \o (IF jsonRequest(now) # <<>>
                         THEN <<"Content-Type: application/json">> \o ExtraHeaders
                         ELSE <<>>)]

\* LLM::apiRequest("chat/completions", d): the request curl sends, a POST when
\* CURLOPT_POSTFIELDS is set and a GET otherwise
Request(d) ==
    [method |-> IF jsonRequest(d) # <<>> THEN "POST" ELSE "GET",
     command |-> "chat/completions",
     body |-> jsonRequest(d),
     headers |-> <<"Authorization: Bearer">>
                 \o (IF jsonRequest(d) # <<>>
                     THEN <<"Content-Type: application/json">> \o ExtraHeaders
                     ELSE <<>>)]

\* whether the caller's thread is inside run()
Running == pc \in {"loop", "scan", "join", "finish"}

\* LLM::setModel, LLM::setPrompt and LLM::setMaxTokens called during run(),
\* from the progress callback or by another thread (an exception of setModel
\* goes to that caller)
ConcurrentSetModel(m) ==
    /\ Running
    /\ currentModel' = IF ModelAvailable(m) THEN m ELSE currentModel
    /\ UNCHANGED <<currentPrompt, maxTokens, data>>
    /\ UNCHANGED <<ndebug, models, maxThreads, tokensPerCharacter, progressCallback, inputs,
                   results, tableVars, textsDone, ledgerVars, dispatchVars, wpc, wslot,
                   reply, historyVars>>

ConcurrentSetPrompt(p) ==
    /\ Running
    /\ currentPrompt' = p
    /\ UNCHANGED <<currentModel, maxTokens, data>>
    /\ UNCHANGED <<ndebug, models, maxThreads, tokensPerCharacter, progressCallback, inputs,
                   results, tableVars, textsDone, ledgerVars, dispatchVars, wpc, wslot,
                   reply, historyVars>>

ConcurrentSetMaxTokens(n) ==
    /\ Running
    /\ maxTokens' = n
    /\ UNCHANGED <<currentModel, currentPrompt, data>>
    /\ UNCHANGED <<ndebug, models, maxThreads, tokensPerCharacter, progressCallback, inputs,
                   results, tableVars, textsDone, ledgerVars, dispatchVars, wpc, wslot,
                   reply, historyVars>>

\* LLM::copySettingsToThread of the worker w while another thread is inside
\* setPrompt(p): the setter takes no lock, the copy of currentPrompt races
\* with the assignment and gives the old text, the new one, or neither
\* ("torn", a std::string read while another thread assigns to it)
CopySettingsRacing(w, p) ==
    /\ pc # "terminated"
    /\ wpc[w] = "start"
    /\ currentPrompt' = p
    /\ \E read \in {currentPrompt, p, "torn"} :
          data' = [data EXCEPT ![w] =
                      [model |-> currentModel, prompt |-> read,
                       maxTokens |-> maxTokens, text |-> inputs[w],
                       tokens |-> EstimateTokens(inputs[w])]]
    /\ wpc' = [wpc EXCEPT ![w] = "limits"]
    /\ UNCHANGED <<ndebug, models, currentModel, maxTokens, maxThreads, tokensPerCharacter,
                   progressCallback, inputs, results, tableVars, textsDone, ledgerVars,
                   dispatchVars, wslot, reply, historyVars>>

\* (mutant) the text of the exception with the type in every case
ErrorTextTyped(error) == <<"[", error.type.value, "] ", error.message>>

\* the text of the exception apiRequest throws for an error object with a
\* string message (the strings it concatenates, in their order)
ErrorText(error) ==
    IF error.type.json = "string"
    THEN <<"[", error.type.value, "] ", error.message>>
    ELSE <<error.message>>

\* what apiRequest throws for the reply r
Thrown(r) ==
    IF r.kind = "transport" THEN <<"transport">>
    ELSE IF r.kind = "error" THEN ErrorText(r.error)
    ELSE <<"header">>

\* LLM::apiRequest("chat/completions"): the request returns with the reply
\* r; an error is thrown, or the headers are processed
ApiRequestReturn(w, r) ==
    /\ pc # "terminated"
    /\ wpc[w] = "http"
    /\ IF r.kind \in {"transport", "error"} \/ HeaderThrows(r.headers)
       THEN /\ WorkerThrows(Thrown(r))
            /\ UNCHANGED <<ledgerVars, wpc, reply, advertised, waited, lastIngest, epoch,
                           textIndex, threadIndex, isNotAssigned>>
       ELSE /\ IF AllLimitsFound(r.headers)
               THEN /\ LET p == Parsed(r.headers)
                       IN  /\ limitsReceived(p.limitRequests, p.limitTokens,
                                              p.remainingRequests, p.remainingTokens,
                                              p.resetRequests, p.resetTokens)
                           /\ advertised' = [requests |-> p.remainingRequests,
                                             tokens |-> p.remainingTokens,
                                             refilled |-> FALSE]
                           /\ epoch' = [requestsSet |-> p.remainingRequests,
                                        admittedRequests |-> 0,
                                        tokensSet |-> p.remainingTokens,
                                        admittedTokens |-> 0, estimates |-> 0]
                    /\ lastIngest' = [headers |-> r.headers, elapsed |-> 0]
                    /\ waited' = [x \in Workers |->
                                    IF waited[x] = "refused" THEN "ingested"
                                    ELSE waited[x]]
               ELSE /\ UNCHANGED <<ledgerVars, waited, lastIngest, epoch>>
                    /\ advertised' = NoAdvert
            /\ wpc' = [wpc EXCEPT ![w] = "reply"]
            /\ reply' = [reply EXCEPT ![w] =
                            [kind |-> r.kind, found |-> HeadersPresent(r.headers)]]
            /\ UNCHANGED <<dispatchVars, outcome, failure>>
    /\ UNCHANGED <<settingsVars, inputs, results, tableVars, textsDone, wslot, data>>
    /\ request' = [request EXCEPT ![w] = Request(data[w])]
    /\ UNCHANGED <<runs, progressLog, textDoneCalls, freed, holder, lockpc>>

\* (mutant) the result is stored at the index of the slot
ResultIndexBySlot(w) == wslot[w]

\* the index threadFunction stores its result at
ResultIndex(w) == w

\* LLM::threadFunction: the checks of the reply and results.at(textIndex) = result
StoreResult(w) ==
    /\ pc # "terminated"
    /\ wpc[w] = "reply"
    /\ IF reply[w].kind # "ok"
       THEN /\ WorkerThrows(<<"parse">>)
            /\ UNCHANGED <<results, wpc, textIndex, threadIndex, isNotAssigned>>
       ELSE /\ results' = [results EXCEPT ![ResultIndex(w)] = Content(data[w])]
            /\ wpc' = [wpc EXCEPT ![w] = "stored"]
            /\ UNCHANGED <<dispatchVars, outcome, failure>>
    /\ UNCHANGED <<settingsVars, inputs, tableVars, textsDone, ledgerVars, wslot, data,
                   reply>>
    /\ UNCHANGED <<runs, progressLog, textDoneCalls, advertised, waited, lastIngest, epoch, freed, request, holder, lockpc>>

\* LLM::threadFunction: isThreadsFinished.at(threadIndex) = true
MarkFinished(w) ==
    /\ pc # "terminated"
    /\ wpc[w] = "stored"
    /\ isThreadsFinished' = [isThreadsFinished EXCEPT ![wslot[w]] = TRUE]
    /\ wpc' = [wpc EXCEPT ![w] = "finished"]
    /\ UNCHANGED <<settingsVars, inputs, results, threads, isThreadsUsed, textsDone,
                   ledgerVars, dispatchVars, wslot, data, reply, historyVars>>

\* LLM::textDone: ++textsDone
TextDoneCount(w) ==
    /\ pc # "terminated"
    /\ wpc[w] = "finished"
    /\ textsDone' = textsDone + 1
    /\ textDoneCalls' = [textDoneCalls EXCEPT ![w] = @ + 1]
    /\ wpc' = [wpc EXCEPT ![w] = "counted"]
    /\ UNCHANGED <<settingsVars, inputs, results, tableVars, ledgerVars, dispatchVars,
                   wslot, data, reply>>
    /\ UNCHANGED <<outcome, runs, failure, progressLog, advertised, waited, lastIngest, epoch, freed, request, holder, lockpc>>

\* LLM::textDone: the callback, if there is one, with textsDone read again;
\* then threadFunction returns
TextDoneNotify(w) ==
    /\ pc # "terminated"
    /\ wpc[w] = "counted"
    /\ progressLog' = IF progressCallback
                      THEN Append(progressLog, <<textsDone, Len(inputs)>>)
                      ELSE progressLog
    /\ wpc' = [wpc EXCEPT ![w] = "done"]
    /\ UNCHANGED <<settingsVars, inputs, results, tableVars, textsDone, ledgerVars,
                   dispatchVars, wslot, data, reply>>
    /\ UNCHANGED <<outcome, runs, failure, textDoneCalls, advertised, waited, lastIngest, epoch, freed, request, holder, lockpc>>

(* ------------------------------- Next ---------------------------------- *)

\* The steps of the program: the caller sets the instance up (one of
\* modelNames, one of threadSettings, a callback, texts of the lengths
\* textLengths or the lists textLists, at most maxTexts in all), calls run()
\* at most maxRuns times and free() on what a run left; the dispatcher and the
\* workers take their steps, the server answering with one of replies; time
\* passes.
NextWith(modelNames, threadSettings, textLengths, textLists, maxTexts, replies, maxRuns) ==
    \/ \E m \in modelNames : runs = 0 /\ SetModel(m)
    \/ \E n \in threadSettings : runs = 0 /\ SetMaxThreads(n)
    \/ runs = 0 /\ ~progressCallback /\ SetProgressCallback
    \/ \E t \in textLengths : Len(inputs) < maxTexts /\ AddText(t)
    \/ \E ts \in textLists : Len(inputs) + Len(ts) <= maxTexts /\ AddTexts(ts)
    \/ results # <<>> /\ Free
    \/ runs < maxRuns /\ RunWithoutModel
    \/ \E hw \in 0..MaxThreadsSetting : runs < maxRuns /\ RunStart(hw)
    \/ Loop
    \/ Scan
    \/ Join
    \/ Finish
    \/ Tick
    \/ \E w \in Workers : CopySettings(w)
    \/ \E w \in Workers : CheckLimitsAdmit(w)
    \/ \E w \in Workers : CheckLimitsRefuse(w)
    \/ \E w \in Workers, r \in replies : ApiRequestReturn(w, r)
    \/ \E w \in Workers : StoreResult(w)
    \/ \E w \in Workers : MarkFinished(w)
    \/ \E w \in Workers : TextDoneCount(w)
    \/ \E w \in Workers : TextDoneNotify(w)

\* the names the caller passes to setModel: none, one of the catalog, and one
\* that the catalog lacks
ModelNames == {"", "gpt-x", "gpt-z"}

\* a success without rate-limit headers
OkReply == [kind |-> "ok", headers |-> NoHeaders]

\* the replies of Spec: a success with or without rate-limit headers, and the
\* three failures
SchedReplies ==
    {OkReply, [kind |-> "ok", headers |-> StallHeaders],
     [kind |-> "error", headers |-> NoHeaders, error |-> [type |-> StringType, message |-> "bad"]],
     [kind |-> "malformed", headers |-> NoHeaders],
     [kind |-> "transport", headers |-> NoHeaders]}

\* the replies of LedgerSpec: successes with each of the header sets
LedgerReplies == {[kind |-> "ok", headers |-> h] : h \in HeaderSets}

\* the replies of RerunSpec and LiveSpec: successes only
OkReplies == {OkReply, [kind |-> "ok", headers |-> StallHeaders]}

\* The whole client, for the claims about the dispatcher and the workers.
Next ==
    NextWith(ModelNames, 0..MaxThreadsSetting, {4}, {<<10, 4>>}, MaxTexts,
             SchedReplies, MaxRuns)

Spec == Init /\ [][Next]_vars

\* The client run several times on one instance, every request succeeding.
RerunNext ==
    NextWith({"gpt-x"}, {1}, {4}, {<<10>>}, MaxTextsSmall, OkReplies, MaxReruns)

RerunSpec == Init /\ [][RerunNext]_vars

\* The client with every kind of header set, for the claims about the ledger.
LedgerNext ==
    NextWith({"gpt-x"}, {2}, {0}, {<<4>>}, MaxTextsSmall, LedgerReplies, MaxRuns)

LedgerSpec == Init /\ [][LedgerNext]_vars

\* the replies of HeaderSpec: successes whose headers carry a malformed
\* number or a duration with a fraction
HeaderReplies ==
    {[kind |-> "ok", headers |-> h] :
        h \in {MalformedHeaders} \cup {DurationHeaders(d) : d \in Durations}}

\* The client in a build with or without NDEBUG, for the claims about the
\* values of the headers.
HeaderNext ==
    NextWith({"gpt-x"}, {1}, {4}, {<<10>>}, MaxTextsSmall, HeaderReplies, MaxRuns)

HeaderSpec == InitWith(BOOLEAN) /\ [][HeaderNext]_vars

\* one short text and two long ones, of 4, 440 and 425 characters
LongTexts == <<4, 440, 425>>

\* the replies of BudgetSpec: successes without headers or with a token budget
\* that a float does not hold exactly
BudgetReplies == {OkReply, [kind |-> "ok", headers |-> LargeHeaders]}

\* The client with texts whose estimates come close to the token budget, for
\* the claim about the admissions between two resets of the ledger.
BudgetNext ==
    NextWith({"gpt-x"}, {2}, {4}, {LongTexts}, MaxTexts, BudgetReplies, MaxRuns)

BudgetSpec == Init /\ [][BudgetNext]_vars

\* The client with texts of 3 and 4 characters and a server whose header sets
\* advertise remaining budgets equal to the limits, for the claim about the
\* bounds of the ledger (the replies are successes without headers or with
\* the whole budget left).
FullNext ==
    NextWith({"gpt-x"}, {2}, {3}, {<<4>>}, MaxTextsSmall,
             {OkReply, [kind |-> "ok", headers |-> FullHeaders]}, MaxRuns)

FullSpec == Init /\ [][FullNext]_vars

\* the replies of BodySpec: a success, a success body without "choices" and
\* each of the error objects, all with the six rate-limit headers, and a
\* success without them
BodyReplies ==
    {OkReply, [kind |-> "ok", headers |-> StallHeaders],
     [kind |-> "malformed", headers |-> StallHeaders]}
    \cup {[kind |-> "error", headers |-> StallHeaders, error |-> e] : e \in Errors}

\* The client with every kind of response body, for the claims about the
\* handling of a response.
BodyNext ==
    NextWith({"gpt-x"}, {2}, {4}, {<<10>>}, MaxTextsSmall, BodyReplies, MaxRuns)

BodySpec == Init /\ [][BodyNext]_vars

\* the steps of the caller's thread inside run()
DispatcherStep == Loop \/ Scan \/ Join \/ Finish

\* the steps of the worker w, its request being answered with a success
WorkerStep(w) ==
    \/ CopySettings(w)
    \/ CheckLimitsAdmit(w)
    \/ CheckLimitsRefuse(w)
    \/ \E r \in OkReplies : ApiRequestReturn(w, r)
    \/ StoreResult(w)
    \/ MarkFinished(w)
    \/ TextDoneCount(w)
    \/ TextDoneNotify(w)

\* The client with every request answered by a success, every thread scheduled
\* again and again, every HTTP call returning, and time advancing.
LiveNext ==
    NextWith({"gpt-x"}, {1}, {4}, {<<10>>}, MaxTextsSmall, OkReplies, MaxRuns)

LiveSpec ==
    /\ Init
    /\ [][LiveNext]_vars
    /\ WF_vars(DispatcherStep)
    /\ WF_vars(Tick)
    /\ \A w \in Workers : WF_vars(WorkerStep(w))

\* The client with setters called while run() is under way, for the claim
\* about the snapshot of the settings.
SetterNext ==
    \/ runs = 0 /\ SetModel("gpt-x")
    \/ inputs = <<>> /\ AddTexts(<<10, 4>>)
    \/ runs < MaxRuns /\ RunStart(MaxThreadsSetting)
    \/ Loop
    \/ Scan
    \/ Join
    \/ Finish
    \/ ConcurrentSetModel("gpt-y")
    \/ ConcurrentSetPrompt("be terse")
    \/ ConcurrentSetMaxTokens(MaxTokensSetting)
    \/ \E w \in Workers : CopySettings(w)
    \/ \E w \in Workers : CopySettingsRacing(w, "be terse")
    \/ \E w \in Workers : CheckLimitsAdmit(w)
    \/ \E w \in Workers : CheckLimitsRefuse(w)
    \/ \E w \in Workers : ApiRequestReturn(w, OkReply)
    \/ \E w \in Workers : StoreResult(w)
    \/ \E w \in Workers : MarkFinished(w)
    \/ \E w \in Workers : TextDoneCount(w)
    \/ \E w \in Workers : TextDoneNotify(w)

SetterSpec == Init /\ [][SetterNext]_vars

(* ------------------------------- locks --------------------------------- *)

\* The scopes of the std::lock_guards of the class, for a run() over
\* MaxTextsSmall texts: lockpc[t] is the place of the thread t between them,
\* holder[m] the thread inside a scope of the mutex m. What the scopes compute
\* is left to the actions above; here a test can go either way.

\* the workers of the run
LockWorkers == Threads \ {Dispatcher}

\* the workers that were launched, and those not joined yet
Launched == {w \in LockWorkers : lockpc[w] # "none"}
Unjoined == {w \in Launched : lockpc[w] # "joined"}

\* the constructor of a std::lock_guard on m: t waits until nobody holds m
Lock(t, m, from, to) ==
    /\ lockpc[t] = from
    /\ holder[m] = NoThread
    /\ holder' = [holder EXCEPT ![m] = t]
    /\ lockpc' = [lockpc EXCEPT ![t] = to]

\* the destructor of a std::lock_guard on m, at the end of its scope
Unlock(t, m, from, to) ==
    /\ lockpc[t] = from
    /\ holder[m] = t
    /\ holder' = [holder EXCEPT ![m] = NoThread]
    /\ lockpc' = [lockpc EXCEPT ![t] = to]

\* code of t outside every scope
Move(t, from, to) ==
    /\ lockpc[t] = from
    /\ lockpc' = [lockpc EXCEPT ![t] = to]
    /\ UNCHANGED holder

\* what the steps between the scopes leave alone
LockFrame ==
    UNCHANGED <<ndebug, models, currentModel, currentPrompt, maxTokens, tokensPerCharacter,
                progressCallback, inputs, results, tableVars, textsDone, ledgerVars,
                dispatchVars, workerVars, outcome, runs, failure, progressLog,
                textDoneCalls, advertised, waited, lastIngest, epoch, freed, request>>

\* LLM::run up to loop()
LockRun(hw) ==
    /\ Move(Dispatcher, "idle", "loop")
    /\ maxThreads' = calculateMaxThreads(hw)
    /\ LockFrame

\* LLM::loop: the next text, or finish()
LockLoop ==
    /\ Move(Dispatcher, "loop", IF Launched # LockWorkers THEN "scan" ELSE "finish")
    /\ UNCHANGED maxThreads /\ LockFrame

\* the thread function of the next text starts
Launch(from) ==
    /\ lockpc[Dispatcher] = from
    /\ lockpc' = [lockpc EXCEPT ![Dispatcher] = "pause",
                                ![CHOOSE w \in LockWorkers \ Launched :
                                      \A v \in LockWorkers \ Launched : w <= v] = "start"]
    /\ UNCHANGED holder

\* LLM::assignText: the first slot is unused
AssignFirst ==
    /\ Launched = {}
    /\ Launch("scan")
    /\ UNCHANGED maxThreads /\ LockFrame

\* LLM::assignText: the first slot is used, the scope of finishedLock begins
AssignLock ==
    /\ Launched # {}
    /\ Lock(Dispatcher, "finished", "scan", "flag")
    /\ UNCHANGED maxThreads /\ LockFrame

\* LLM::assignText: the scope ends with the flag found set (the slot is joined
\* next) or not (the next slot, or the first one again)
AssignUnlock ==
    /\ Unlock(Dispatcher, "finished", "flag",
              IF (\E w \in LockWorkers : lockpc[w] \in {"textDone", "callback", "done", "joined"})
              THEN "join" ELSE IF maxThreads > 1 THEN "next" ELSE "scan")
    /\ UNCHANGED maxThreads /\ LockFrame

\* LLM::assignText: the second slot is unused
AssignNext ==
    /\ Launch("next")
    /\ UNCHANGED maxThreads /\ LockFrame

\* LLM::assignText: join() returns when the thread function has returned
AssignJoin ==
    /\ lockpc[Dispatcher] = "join"
    /\ \E w \in Unjoined :
          /\ lockpc[w] = "done"
          /\ lockpc' = [lockpc EXCEPT ![Dispatcher] = "pause", ![w] = "joined",
                                      ![CHOOSE v \in LockWorkers : v \notin Launched] = "start"]
    /\ UNCHANGED <<holder, maxThreads>> /\ LockFrame

\* LLM::loop: the sleep after assignText
LockPause ==
    /\ Move(Dispatcher, "pause", "loop")
    /\ UNCHANGED maxThreads /\ LockFrame

\* LLM::finish: the joins in the order of the slots, and the return of run()
LockFinish ==
    /\ lockpc[Dispatcher] = "finish"
    /\ IF Unjoined = {}
       THEN lockpc' = [lockpc EXCEPT ![Dispatcher] = "returned"]
       ELSE \E w \in Unjoined :
               /\ \A v \in Unjoined : w <= v
               /\ lockpc[w] = "done"
               /\ lockpc' = [lockpc EXCEPT ![w] = "joined"]
    /\ UNCHANGED <<holder, maxThreads>> /\ LockFrame

\* LLM::copySettingsToThread: the scope of settingsLock
SettingsLock(w) == Lock(w, "settings", "start", "settings") /\ UNCHANGED maxThreads /\ LockFrame
SettingsUnlock(w) == Unlock(w, "settings", "settings", "enter") /\ UNCHANGED maxThreads /\ LockFrame

\* (mutant) checkLimits sleeping inside the scope of limitsLock
LimitsSleepLocked(w) == Move(w, "limits", "sleep") /\ UNCHANGED maxThreads /\ LockFrame

\* LLM::checkLimits: the scope of limitsLock in one turn of the loop, left by
\* break or at its end, and the sleep after it
LimitsLock(w) == Lock(w, "limits", "enter", "limits") /\ UNCHANGED maxThreads /\ LockFrame
LimitsUnlockAdmitted(w) == Unlock(w, "limits", "limits", "http") /\ UNCHANGED maxThreads /\ LockFrame
LimitsUnlockRefused(w) == Unlock(w, "limits", "limits", "sleep") /\ UNCHANGED maxThreads /\ LockFrame
LimitsSleep(w) == Move(w, "sleep", "enter") /\ UNCHANGED maxThreads /\ LockFrame

\* LLM::apiRequest: curl_easy_perform returns; then limitsReceived with its
\* scope of limitsLock, or nothing when a header is missing
Perform(w) == Move(w, "http", "headers") /\ UNCHANGED maxThreads /\ LockFrame
ReceivedLock(w) == Lock(w, "limits", "headers", "received") /\ UNCHANGED maxThreads /\ LockFrame
ReceivedUnlock(w) == Unlock(w, "limits", "received", "reply") /\ UNCHANGED maxThreads /\ LockFrame
ReceivedNothing(w) == Move(w, "headers", "reply") /\ UNCHANGED maxThreads /\ LockFrame

\* LLM::threadFunction: the scopes of resultsLock and finishedLock
ResultsLock(w) == Lock(w, "results", "reply", "results") /\ UNCHANGED maxThreads /\ LockFrame
ResultsUnlock(w) == Unlock(w, "results", "results", "stored") /\ UNCHANGED maxThreads /\ LockFrame
FinishedLock(w) == Lock(w, "finished", "stored", "finished") /\ UNCHANGED maxThreads /\ LockFrame
FinishedUnlock(w) == Unlock(w, "finished", "finished", "textDone") /\ UNCHANGED maxThreads /\ LockFrame

\* LLM::textDone: the callback is called, and returns
CallbackCalled(w) == Move(w, "textDone", "callback") /\ UNCHANGED maxThreads /\ LockFrame
CallbackReturns(w) == Move(w, "callback", "done") /\ UNCHANGED maxThreads /\ LockFrame

\* The threads of one run() seen at the boundaries of their lock scopes.
LockNext ==
    \/ \E hw \in 1..MaxThreadsSetting : LockRun(hw)
    \/ LockLoop
    \/ AssignFirst
    \/ AssignLock
    \/ AssignUnlock
    \/ AssignNext
    \/ AssignJoin
    \/ LockPause
    \/ LockFinish
    \/ \E w \in LockWorkers : SettingsLock(w)
    \/ \E w \in LockWorkers : SettingsUnlock(w)
    \/ \E w \in LockWorkers : LimitsLock(w)
    \/ \E w \in LockWorkers : LimitsUnlockAdmitted(w)
    \/ \E w \in LockWorkers : LimitsUnlockRefused(w)
    \/ \E w \in LockWorkers : LimitsSleep(w)
    \/ \E w \in LockWorkers : Perform(w)
    \/ \E w \in LockWorkers : ReceivedLock(w)
    \/ \E w \in LockWorkers : ReceivedUnlock(w)
    \/ \E w \in LockWorkers : ReceivedNothing(w)
    \/ \E w \in LockWorkers : ResultsLock(w)
    \/ \E w \in LockWorkers : ResultsUnlock(w)
    \/ \E w \in LockWorkers : FinishedLock(w)
    \/ \E w \in LockWorkers : FinishedUnlock(w)
    \/ \E w \in LockWorkers : CallbackCalled(w)
    \/ \E w \in LockWorkers : CallbackReturns(w)

LockSpec == Init /\ [][LockNext]_vars

(* ------------------------------ claims --------------------------------- *)

\* the workers that were launched and have not returned from their HTTP call
InFlight == {w \in Workers : wpc[w] \in {"start", "limits", "http"}}

\* the workers that checkLimits has admitted
Admitted == {w \in Workers : wpc[w] \notin {"none", "start", "limits"}}

\* the step in which checkLimits admits the worker w
AdmitStep(w) == wpc[w] = "limits" /\ wpc'[w] = "http"

\* C1: when run() has returned normally there is one result per input, and
\* results[i] is the content of the reply to the request that was built from
\* inputs[i] and the settings.
C1_ResultsPairInputs ==
    outcome = "returned" =>
        /\ Len(results) = Len(inputs)
        /\ \A i \in 1..Len(inputs) :
              /\ data[i].text = inputs[i]
              /\ data[i].model = currentModel
              /\ results[i] = Content(data[i])

\* C1 witness: a run of three texts, not all alike, on two slots has returned.
C1_Witness ==
    /\ outcome = "returned"
    /\ Len(inputs) = 3
    /\ Len(threads) = 2
    /\ inputs[1] # inputs[2]
    /\ results[2] = Content(data[2])

\* C2: at no time are more workers launched and not yet back from their HTTP
\* call than the resolved maxThreads.
C2_ConcurrencyBounded == Cardinality(InFlight) <= maxThreads

\* C2 witness: two workers are in their HTTP call and the third text waits for
\* a slot.
C2_Witness ==
    /\ pc \in {"scan", "join"}
    /\ textIndex = 3
    /\ maxThreads = 2
    /\ Cardinality({w \in Workers : wpc[w] = "http"}) = 2

\* C3: under the fairness of LiveSpec every call of run() returns.
C3_RunReturns == Running ~> (pc = "idle")

\* C4: once a worker has failed, run() is still under way or has ended by
\* raising the error to its caller.
C4_FirstErrorRaised ==
    failure # NoFailure => (Running \/ (pc = "idle" /\ outcome = "raised"))

\* C5: every value the progress callback received lies in [0,1].
C5_ProgressInUnitInterval ==
    \A k \in 1..Len(progressLog) :
        0 <= progressLog[k][1] /\ progressLog[k][1] <= progressLog[k][2]

\* C6: a worker calls textDone at most once and only after it has stored its
\* result, and when run() has returned every worker of the run has called it
\* (and, with a callback, the callback was called once per input).
C6_TextDoneOncePerInput ==
    /\ \A w \in Workers :
          /\ textDoneCalls[w] <= 1
          /\ textDoneCalls[w] = 1 => wpc[w] \in {"counted", "done"}
          /\ (textDoneCalls[w] = 1 /\ (Running \/ outcome = "returned")) =>
                results[w] = Content(data[w])
    /\ outcome = "returned" =>
          /\ \A i \in 1..Len(inputs) : textDoneCalls[i] = 1
          /\ progressCallback => Len(progressLog) = Len(inputs)

\* C6 witness: a run of three texts with a callback has returned.
C6_Witness ==
    /\ outcome = "returned"
    /\ Len(inputs) = 3
    /\ progressCallback
    /\ \A i \in 1..3 : textDoneCalls[i] = 1

\* C7: after a header set was ingested, and until a further request completes
\* (or, granted to the claim, a reset deadline restores a budget), the
\* remaining budgets are at most the advertised ones.
C7_RemainingBelowAdvertised ==
    (advertised # NoAdvert /\ ~advertised.refilled) =>
        /\ requestsRemaining <= advertised.requests
        /\ tokensRemaining <= advertised.tokens

C9_DebitIsExact ==
    [][\A w \in Workers : AdmitStep(w) =>
            /\ requestsRemaining' = RefilledRequests - 1
            /\ tokensRemaining' = RefilledTokens - CeilTenths(data[w].tokens)]_vars

\* C10: a reply with fewer than six rate-limit headers leaves every field of
\* the ledger as it was.
C10_PartialHeadersIgnored ==
    [][\A w \in Workers :
            (wpc[w] = "http" /\ wpc'[w] = "reply" /\ reply'[w].found < 6)
                => Ledger' = Ledger]_vars

\* C10 witness: a reply with five of the six headers has been received after
\* an earlier reply had set the ledger.
C10_Witness ==
    /\ \E w \in Workers : wpc[w] = "reply" /\ reply[w].found = 5
    /\ requestLimit # SizeMax

\* C11: a reply one of whose six rate-limit headers has a malformed value
\* changes no field of the ledger and raises no error in the worker.
C11_MalformedHeaderSkipped ==
    [][\A w \in Workers, r \in HeaderReplies :
            (r.headers = MalformedHeaders /\ ApiRequestReturn(w, r))
                => (Ledger' = Ledger /\ failure' = failure /\ pc' # "terminated")]_vars

\* the milliseconds a duration <S>s or <S>.<F>s of a header stands for: a
\* fraction of one digit counts tenths of a second, one of two digits
\* hundredths, one of three digits milliseconds
DurationMs(d) ==
    LET dotPos == Find(d, ".", 0)
        sPos   == Find(d, "s", 0)
        whole  == Substr(d, 0, IF dotPos = NPos THEN sPos ELSE dotPos)
        f      == IF dotPos = NPos THEN <<>> ELSE Substr(d, dotPos + 1, sPos - dotPos - 1)
        scale  == IF Len(f) = 1 THEN 100 ELSE IF Len(f) = 2 THEN 10 ELSE 1
    IN  DigitsValue(whole, 0) * msPerSecond + DigitsValue(f, 0) * scale

\* whether the header set ingested last left no request until its reset
Stalled == lastIngest # NoIngest /\ lastIngest.headers.remainingRequests = <<"0">>

\* C12: after a header set with remaining-requests = 0 and reset-requests = D
\* was ingested last, no worker is admitted before D has elapsed since, and
\* once D has elapsed the test of checkLimits succeeds for a waiting worker
\* whose estimate is below the tokens left.
C12_StalledUntilReset ==
    /\ [][\A w \in Workers : (Stalled /\ AdmitStep(w)) =>
              lastIngest.elapsed >= DurationMs(lastIngest.headers.resetRequests)]_vars
    /\ [](\A w \in Workers :
              (/\ Stalled
               /\ wpc[w] = "limits"
               /\ data[w].tokens < 10 * RefilledTokens
               /\ lastIngest.elapsed > DurationMs(lastIngest.headers.resetRequests))
                  => LimitsOk(data[w].tokens))

\* C13: as long as no header set has been ingested, checkLimits refuses no
\* worker: each is admitted by its first test, whatever was admitted before.
C13_AdmittedBeforeFirstHeaders ==
    lastIngest = NoIngest => \A w \in Workers : waited[w] # "refused"

\* C14: setModel(m) raises exactly when m is empty or no entry of the
\* catalog; when it raises the selected model stays, otherwise it becomes m.
C14_SetModelChecksCatalog ==
    [][\A m \in ModelNames : SetModel(m) =>
            IF m = "" \/ ~(\E i \in DOMAIN models : models[i] = m)
            THEN outcome' = "raised" /\ currentModel' = currentModel
            ELSE outcome' # "raised" /\ currentModel' = m]_vars

\* C14 witness: setModel has selected a model of the catalog, and a later
\* setModel has raised and left that model selected.
C14_Witness == runs = 0 /\ outcome = "raised" /\ currentModel = "gpt-x"

\* C15: run() called while no model is selected raises before it launches a
\* worker, and leaves the results, the three tables, the inputs and the
\* ledger as they were.
C15_RunWithoutModelRaises ==
    [][(pc = "idle" /\ currentModel = "" /\ runs' = runs + 1) =>
            /\ outcome' = "raised"
            /\ pc' = "idle"
            /\ wpc' = wpc
            /\ results' = results
            /\ <<threads, isThreadsUsed, isThreadsFinished>>'
                   = <<threads, isThreadsUsed, isThreadsFinished>>
            /\ inputs' = inputs
            /\ Ledger' = Ledger]_vars

\* C15 witness: run() has raised with texts added and no model selected.
C15_Witness == runs = 1 /\ outcome = "raised" /\ currentModel = "" /\ inputs # <<>>

\* C16: a reset-requests header of the form <S>.<F>s sets the deadline
\* S * 1000 ms plus the fraction ahead, a fraction of one digit counting
\* tenths of a second, of two digits hundredths, of three digits milliseconds.
C16_FractionOfSecond ==
    [][\A w \in Workers, d \in Durations :
            ApiRequestReturn(w, [kind |-> "ok", headers |-> DurationHeaders(d)])
                => requestLimitTimeout' = DurationMs(d)]_vars

\* C17: free() empties the results and the three tables and leaves the
\* inputs, the settings, the catalog and the ledger as they were; a run()
\* after it allocates the tables anew and, when it returns, has one result
\* per input, results[i] being the reply to inputs[i].
C17_FreeThenRunAgain ==
    /\ [][Free =>
              /\ results' = <<>> /\ threads' = <<>>
              /\ isThreadsUsed' = <<>> /\ isThreadsFinished' = <<>>
              /\ inputs' = inputs
              /\ settingsVars' = settingsVars
              /\ Ledger' = Ledger]_vars
    /\ []((freed /\ Running) =>
              /\ Len(results) = Len(inputs)
              /\ Len(threads) = maxThreads
              /\ Len(isThreadsUsed) = maxThreads
              /\ Len(isThreadsFinished) = maxThreads)
    /\ []((freed /\ outcome = "returned") =>
              /\ Len(results) = Len(inputs)
              /\ \A i \in 1..Len(inputs) :
                    data[i].text = inputs[i] /\ results[i] = Content(data[i]))

\* C17 witness: after free() a second run() over two texts has returned.
C17_Witness ==
    /\ freed /\ runs = 2 /\ outcome = "returned"
    /\ Len(inputs) = 2 /\ inputs[1] # inputs[2]
    /\ Len(threads) = 1

\* the workers that have not stored their result yet
Unstored == {w \in Workers : wpc[w] \in {"start", "limits", "http", "reply"}}

\* C18: during run(), a slot whose finished flag is set holds a worker (the
\* one launched on it last) that has stored its result; the flag is never set
\* while that worker waits for its admission or for its response.
C18_FinishedMeansStored ==
    Running =>
        \A t \in 1..Len(threads) :
            (isThreadsFinished[t] /\ threads[t] # NoWorker) => threads[t] \notin Unstored

\* the slots the dispatcher can take without waiting: unused, or holding a
\* worker whose thread function has returned
FreeSlots ==
    {t \in 1..Len(threads) :
        ~isThreadsUsed[t] \/ (threads[t] # NoWorker /\ wpc[threads[t]] = "done")}

\* C19: while a text waits to be assigned, the dispatcher is not in the join
\* of a worker that has not stored its result if another slot is unused or
\* holds a worker that has completed.
C19_NoJoinOnBusySlot ==
    (pc = "join" /\ threads[threadIndex] \in Unstored) => FreeSlots = {}

\* C20: between two consecutive resets of a budget (a header set ingested, or
\* a refill at its deadline) at most as many workers are admitted as the
\* reset left requests, and the estimates of the admitted workers sum to
\* less than the tokens the reset left (the estimates are in tenths).
C20_AdmissionsWithinReset ==
    /\ epoch.admittedRequests <= epoch.requestsSet
    /\ epoch.admittedTokens > 0 => epoch.estimates < 10 * epoch.tokensSet

\* C21: a worker's response changes the ledger only after the worker has
\* checked the body and stored its result: the steps a worker takes before
\* it has stored, its admission apart, leave the ledger as it was, and so
\* does the return of a success body without "choices".
C21_IngestAfterStore ==
    [][\A w \in Workers :
            /\ (w \in Unstored /\ w \in Unstored' /\ wpc'[w] # wpc[w] /\ ~AdmitStep(w))
                   => Ledger' = Ledger
            /\ (wpc[w] = "http" /\ wpc'[w] = "reply" /\ reply'[w].kind = "malformed")
                   => Ledger' = Ledger]_vars

\* C22: a response whose body holds an error object with a string message
\* makes the worker throw the text "[<type>] <message>", without the prefix
\* unless the type is a string, and changes neither the results, the finished
\* flags, textsDone nor the ledger.
C22_ErrorObjectRaised ==
    [][\A w \in Workers, r \in BodyReplies :
            (r.kind = "error" /\ ApiRequestReturn(w, r)) =>
                /\ failure' = IF r.error.type.json = "string"
                              THEN <<"[", r.error.type.value, "] ", r.error.message>>
                              ELSE <<r.error.message>>
                /\ results' = results
                /\ isThreadsFinished' = isThreadsFinished
                /\ textsDone' = textsDone
                /\ Ledger' = Ledger]_vars

\* C22 witness: after a header set was ingested and time has passed, a worker
\* has thrown the message of an error object that came without a type and
\* with the six headers.
C22_Witness ==
    /\ failure = <<"bad">>
    /\ lastIngest # NoIngest /\ lastIngest.elapsed > 0

\* the mutexes the thread t holds
HeldBy(t) == {m \in Mutexes : holder[m] = t}

\* C23: every thread holds at most one of the four mutexes, and holds one
\* only inside the scope of its lock_guard: none while it waits for a mutex,
\* sleeps, performs its HTTP call, calls the callback or joins a thread.
C23_OneLockAtATime ==
    \A t \in Threads :
        /\ Cardinality(HeldBy(t)) <= 1
        /\ HeldBy(t) # {} =>
              lockpc[t] \in {"settings", "limits", "received", "results", "finished", "flag"}

\* C23 witness: a worker waits for limitsLock, which another worker holds,
\* while the dispatcher waits in a join.
C23_Witness ==
    \E w, v \in LockWorkers :
        /\ holder["limits"] = w
        /\ lockpc[v] \in {"enter", "headers"}
        /\ lockpc[Dispatcher] = "finish"

\* C24: the snapshot a worker took at its start stays as it is for the rest
\* of the run, whatever setter is called afterwards, and the model, the
\* prompt and max_completion_tokens of the worker's request are those of its
\* snapshot.
C24_RequestFromSnapshot ==
    /\ [][\A w \in Workers :
              (wpc[w] \notin {"none", "start"} /\ runs' = runs) => data'[w] = data[w]]_vars
    /\ [](\A w \in Workers :
              (request[w] # NoRequest /\ request[w].body # <<>>) =>
                  LET body == request[w].body[1]
                  IN  /\ body.model = data[w].model
                      /\ body.max_completion_tokens = data[w].maxTokens
                      /\ body.messages[Len(body.messages)].content = <<data[w].text>>
                      /\ IF data[w].prompt = "" THEN Len(body.messages) = 1
                         ELSE /\ Len(body.messages) = 2
                              /\ body.messages[1].content = <<data[w].prompt>>)

\* C24 witness: a worker's request went out with the model and without the
\* prompt of its snapshot after setModel and setPrompt had changed both, and
\* a worker that took its snapshot later sent the new ones.
C24_Witness ==
    \E w, v \in Workers :
        /\ request[w].body # <<>> /\ request[v].body # <<>>
        /\ request[w].body[1].model = "gpt-x" /\ Len(request[w].body[1].messages) = 1
        /\ currentModel = "gpt-y" /\ currentPrompt = "be terse"
        /\ request[v].body[1].model = "gpt-y" /\ Len(request[v].body[1].messages) = 2

\* C25: during a run the texts that have been given a thread are exactly those
\* before textIndex; a thread is started only for the text at textIndex, which
\* had none in this run, and textIndex moves to the next text; only the
\* start of a run takes a thread back; and run() returns with every text's
\* thread function returned.
C25_LaunchedInOrder ==
    /\ [](Running => \A w \in Workers : wpc[w] # "none" <=> w < textIndex)
    /\ [][\A w \in Workers :
            /\ (wpc[w] # "start" /\ wpc'[w] = "start") =>
                    /\ w = textIndex
                    /\ w <= Len(inputs)
                    /\ wpc[w] = "none"
                    /\ textIndex' = w + 1
            /\ (wpc[w] # "none" /\ wpc'[w] = "none") => runs' = runs + 1]_vars
    /\ [][(pc = "finish" /\ pc' = "idle") =>
            \A w \in Workers : wpc[w] = IF w <= Len(inputs) THEN "done" ELSE "none"]_vars

\* three texts on two slots, all processed, and run() has returned
C25_Witness ==
    /\ pc = "idle"
    /\ runs = 1
    /\ Len(inputs) = MaxTexts
    /\ Len(threads) = 2
    /\ \A w \in Workers : wpc[w] = "done"

\* C26: every request a worker has sent is a POST to chat/completions whose
\* JSON body carries the model of the worker's data and, as its last message,
\* a user message with the worker's text, and whose headers include
\* Content-Type and every configured extra header.
C26_PostWithBody ==
    \A w \in Workers :
        request[w] # NoRequest =>
            /\ request[w].method = "POST"
            /\ request[w].command = "chat/completions"
            /\ request[w].body # <<>>
            /\ request[w].body[1].model = data[w].model
            /\ LET messages == request[w].body[1].messages
               IN  messages[Len(messages)] = [role |-> "user", content |-> <<inputs[w]>>]
            /\ \A h \in {"Content-Type: application/json"}
                         \cup {ExtraHeaders[i] : i \in DOMAIN ExtraHeaders} :
                   \E i \in DOMAIN request[w].headers : request[w].headers[i] = h

\* C27: when the first run() has returned with a callback registered, the
\* callback has been called once for each of the N texts and has received
\* each of 1/N, 2/N, ..., N/N exactly once.
C27_ProgressEachOnce ==
    (pc = "idle" /\ runs = 1 /\ outcome = "returned" /\ progressCallback) =>
        /\ Len(progressLog) = Len(inputs)
        /\ \A k \in 1..Len(inputs) :
               Cardinality({i \in DOMAIN progressLog :
                               progressLog[i] = <<k, Len(inputs)>>}) = 1

\* C28: the remaining budgets never exceed the limits, and an admission
\* leaves one request less than the budget it found, a number that is not
\* negative, and no more tokens than it found.
C28_RemainingWithinLimit ==
    /\ [](requestsRemaining <= requestLimit /\ tokensRemaining <= tokenLimit)
    /\ [][\A w \in Workers :
            AdmitStep(w) =>
                /\ RefilledRequests >= 1
                /\ requestsRemaining' = RefilledRequests - 1
                /\ tokensRemaining' <= RefilledTokens]_vars

====
